---- MODULE Spec2Model ----
(***************************************************************************)
(* A model of vscode-deploy-reloaded's target-operation chain              *)
(* (src/src/targets.ts, executeTargetOperations), of its target lookup and *)
(* target selection (getTargetName, getTargetsByName, showTargetQuickPick) *)
(* and of its pull dispatcher and the entry points in front of it          *)
(* (src/src/pull.ts, pullFilesFrom, pullFileFrom, pullPackage).            *)
(*                                                                         *)
(* JavaScript values are tagged records [k |-> kind, ...]; strings are     *)
(* sequences of one-character strings, so that trimming and case folding   *)
(* are computed and not assumed.                                           *)
(*                                                                         *)
(* Scheduling: JavaScript runs one task at a time. An action of the model  *)
(* is the synchronous run of a function between two suspension points      *)
(* (await). The environment (SetFinalize, the executor, the plugin) acts   *)
(* only while the modelled function is suspended or not running.           *)
(*                                                                         *)
(* A plugin works on the descriptors it was handed in their order, calls   *)
(* onBeforeDownload and then onDownloadCompleted for each and awaits them; *)
(* its downloadFiles call may resolve or reject at any point at which it   *)
(* is not awaiting a callback.                                             *)
(***************************************************************************)
EXTENDS Naturals, Sequences, FiniteSets

VARIABLES
    \* ---- executeTargetOperations (targets.ts) ----
    opsPc,              \* "idle" | "loop" | "await" | "done"
    target,             \* the target argument
    operationEvent,     \* the operationEvent argument
    OPS,                \* deploy_helpers.asArray(operationsFromTarget)
    idx,                \* position of the for-of loop in OPS (1-based)
    prevOperation,      \* the local prevOperation
    isInFinalizeState,  \* WORKSPACE.isInFinalizeState
    opsRet,             \* how the call settled
    \* history of the call
    begun,              \* per iteration begun: [idx, fin]: entry and the flag read
    invoked,            \* per executor invocation: [idx, executor, ctx]
    results,            \* per settled executor: the value it settled with
    finalizedMidChain,  \* the flag became set while the call was in progress
    earlierInvoked,     \* an earlier call of the run invoked an executor
    \* ---- pullFilesFrom (pull.ts) ----
    pullPc,             \* "idle" | "loop" | "plugin" | "done"
    plugins,            \* ME.context.plugins, the registry
    files,              \* the files argument
    pullTarget,         \* the target argument
    PLUGINS,            \* the local PLUGINS: registry positions still to try
    PI,                 \* the plugin whose downloadFiles call is in flight (0: none)
    ctxFiles,           \* CTX.files handed to PI
    dpos,               \* the descriptor the plugin works on next
    beforeCalled,       \* onBeforeDownload already called for descriptor dpos
    persisting,         \* onDownloadCompleted of descriptor dpos is suspended on
                        \* the read and the write of the downloaded file
    pullRet,            \* how the call settled
    \* history of the call
    log,                \* ME.context.outputChannel: the lines appended since the
                        \* empty line that opens the current plugin's turn
    written,            \* files written by deploy_helpers.writeFile
    warnings,           \* number of showWarningMessage calls
    turns,              \* registry positions shifted off PLUGINS, in order
    calls,              \* per downloadFiles call: [plugin, files]
    inFlight,           \* number of downloadFiles calls not yet settled
    lastCompletion,     \* the last onDownloadCompleted call of the downloadFiles
                        \* call in flight: [file, passed, result, settled]
    \* ---- getTargetsByName (targets.ts) ----
    targetNames,        \* the targetNames argument
    targets,            \* the targets argument
    namesRet,           \* what the call returned
    \* ---- pullFileFrom, pullPackage (pull.ts), showTargetQuickPick (targets.ts) ----
    flowPc,             \* "idle" | "search" | "choose" | "action" | "done"
    flow,               \* the function called
    item,               \* its target or pkg argument
    canBeHandledByMe,   \* ME.canBeHandledByMe(item)
    checks,             \* number of ME.canBeHandledByMe calls
    action,             \* showTargetQuickPick: an action was passed
    ifNoTargets,        \* showTargetQuickPick: the ifNoTargets argument
    FILES_TO_PULL,      \* pullPackage: the files found
    QUICK_PICK_ITEMS,   \* the targets the items were made of, in order
    selectedItem,       \* position of the selected item (0: none)
    searches,           \* number of ME.findFilesByFilter calls
    choosers,           \* number of vscode.window.showQuickPick calls
    actions,            \* per item action begun: [item, target]
    actionResult,       \* what the caller's action settled with
    flowRet             \* how the call settled

opsVars == <<opsPc, target, operationEvent, OPS, idx, prevOperation,
             isInFinalizeState, opsRet, begun, invoked, results,
             finalizedMidChain, earlierInvoked>>

pullVars == <<pullPc, plugins, files, pullTarget, PLUGINS, PI,
              ctxFiles, dpos, beforeCalled, persisting, pullRet, log, written,
              warnings, turns, calls, inFlight, lastCompletion>>

namesVars == <<targetNames, targets, namesRet>>

flowVars == <<flowPc, flow, item, canBeHandledByMe, checks, action, ifNoTargets,
              FILES_TO_PULL, QUICK_PICK_ITEMS, selectedItem, searches, choosers,
              actions, actionResult, flowRet>>

\* pullVars without warnings, which every showWarningMessage call counts.
pullButWarnings == <<pullPc, plugins, files, pullTarget, PLUGINS, PI, ctxFiles,
                     dpos, beforeCalled, persisting, pullRet, log, written,
                     turns, calls, inFlight, lastCompletion>>

vars == <<opsVars, pullVars, namesVars, flowVars>>

-----------------------------------------------------------------------------
(* Bounds of the model. *)

\* longest operation list of a target
MaxOps == 3
\* longest plugin registry
MaxPlugins == 2
\* longest file list
MaxFiles == 2
\* longest list of targets
MaxTargets == 2
\* longest list of requested target names
MaxNames == 2

-----------------------------------------------------------------------------
(* JavaScript values. *)

Undef == [k |-> "undefined"]
Null == [k |-> "null"]
Bool(b) == [k |-> "boolean", v |-> b]
Str(s) == [k |-> "string", v |-> s]
Arr(s) == [k |-> "array", v |-> s]

\* How a call settled.
Pending == [k |-> "pending"]
Rejected == [k |-> "rejected"]

\* No getTargetsByName call was made.
InitNamesIdle ==
    /\ targetNames = Undef
    /\ targets = Undef
    /\ namesRet = Pending

\* None of pullFileFrom, pullPackage, showTargetQuickPick was called.
InitFlowIdle ==
    /\ flowPc = "idle"
    /\ flow = "none"
    /\ item = Null
    /\ canBeHandledByMe = FALSE
    /\ checks = 0
    /\ action = FALSE
    /\ ifNoTargets = Bool(FALSE)
    /\ FILES_TO_PULL = Null
    /\ QUICK_PICK_ITEMS = <<>>
    /\ selectedItem = 0
    /\ searches = 0
    /\ choosers = 0
    /\ actions = <<>>
    /\ actionResult = Pending
    /\ flowRet = Pending

RECURSIVE SeqsUpTo(_, _)
\* All sequences over S of length at most n.
SeqsUpTo(S, n) ==
    IF n = 0 THEN {<<>>}
    ELSE LET shorter == SeqsUpTo(S, n - 1)
         IN  shorter \cup {Append(s, x) : s \in {t \in shorter : Len(t) = n - 1}, x \in S}

-----------------------------------------------------------------------------
(* deploy_helpers: the string and value helpers the two files call. *)

\* String.prototype.toLowerCase on the letters the model uses.
toLowerCase(s) ==
    [i \in 1..Len(s) |->
        CASE s[i] = "O" -> "o"
          [] s[i] = "P" -> "p"
          [] s[i] = "E" -> "e"
          [] s[i] = "N" -> "n"
          [] s[i] = "F" -> "f"
          [] s[i] = "T" -> "t"
          [] OTHER -> s[i]]

RECURSIVE trimStart(_)
trimStart(s) == IF s # <<>> /\ Head(s) = " " THEN trimStart(Tail(s)) ELSE s

RECURSIVE trimEnd(_)
trimEnd(s) ==
    IF s # <<>> /\ s[Len(s)] = " " THEN trimEnd(SubSeq(s, 1, Len(s) - 1)) ELSE s

\* String.prototype.trim
trim(s) == trimEnd(trimStart(s))

\* deploy_helpers.toStringSafe: '' for null and undefined.
toStringSafe(val) == IF val.k = "string" THEN val.v ELSE <<>>

\* deploy_helpers.normalizeString: lower case, trimmed.
normalizeString(val) == trim(toLowerCase(toStringSafe(val)))

\* deploy_helpers.isEmptyString: empty after trimming.
isEmptyString(val) == trim(toStringSafe(val)) = <<>>

\* deploy_helpers.isObject
isObject(val) == val.k = "object"

\* deploy_helpers.toBooleanSafe: the default for null and undefined.
toBooleanSafe(val, defaultValue) ==
    IF val.k \in {"undefined", "null"} THEN defaultValue ELSE val.v

\* deploy_helpers.asArray: a single value is wrapped, null and undefined
\* entries are removed.
asArray(val) ==
    LET wrapped == IF val.k = "array" THEN val.v ELSE <<val>>
    IN  SelectSeq(wrapped, LAMBDA i : i.k \notin {"undefined", "null"})

\* deploy_helpers.filterConditionalItems: an item whose condition evaluates
\* to false is dropped (cond is the value its condition evaluates to).
filterConditionalItems(items) ==
    SelectSeq(items, LAMBDA i : IF isObject(i) THEN i.cond ELSE TRUE)

-----------------------------------------------------------------------------
(* targets.ts: executeTargetOperations *)

\* enum TargetOperationEvent
BeforeDeploy == 0
AfterDeployed == 1

\* The strings of the model.
sEmpty == <<>>
sBlank == <<" ">>
sFile == <<"f">>
sOpen == <<"o", "p", "e", "n">>
sOpenRaw == <<"O", "p", "e", "n", " ">>
sSql == <<"s", "q", "l">>

\* A structured TargetOperation; cond is what its condition evaluates to.
Operation(type, tgt, cond) ==
    [k |-> "object", type |-> type, target |-> tgt, cond |-> cond]

\* The TargetOperationValue entries a target is configured with.
OperationValues ==
    { Str(sEmpty), Str(sBlank), Str(sFile),
      Operation(Str(sOpen), Str(sFile), TRUE),
      Operation(Str(sOpenRaw), Str(sFile), TRUE),
      Operation(Undef, Str(sFile), TRUE),
      Operation(Str(sSql), Str(sFile), TRUE),
      Operation(Str(sOpen), Str(sFile), FALSE) }

\* What beforeDeploy or deployed holds: nothing, one value, or an array.
OperationLists ==
    {Undef} \cup OperationValues
            \cup {Arr(s) : s \in SeqsUpTo(OperationValues, MaxOps)}

\* The targets of the model: one of the two hooks is configured, beforeDeploy
\* with any of the lists, deployed with one value or an array of at most one.
OpsTargets ==
    {[k |-> "object", beforeDeploy |-> l, deployed |-> Undef] : l \in OperationLists}
    \cup {[k |-> "object", beforeDeploy |-> Undef, deployed |-> l] :
              l \in OperationValues \cup {Arr(<<>>)} \cup {Arr(<<v>>) : v \in OperationValues}}

\* What an executor settles with: TargetOperationExecutionResult, or a throw.
Thrown == [k |-> "thrown"]
ExecutorResults == {Undef, Null, Bool(TRUE), Bool(FALSE), Thrown}

\* The switch on operationEvent.
operationsFromTargetMutant(t, ev) ==
    CASE ev = AfterDeployed -> t.beforeDeploy
      [] ev = BeforeDeploy -> t.deployed
      [] OTHER -> Undef

operationsFromTarget(t, ev) ==
    CASE ev = AfterDeployed -> t.deployed
      [] ev = BeforeDeploy -> t.beforeDeploy
      [] OTHER -> Undef

\* The check at the top of the loop body.
finalizeCheckMutant(flag) == FALSE

finalizeCheck(flag) == flag

\* A bare string becomes an open operation of type ''.
toOperationMutant(val) ==
    IF isObject(val) THEN val
    ELSE LET APP == toStringSafe(val)
         IN  IF ~isEmptyString(Str(APP))
             THEN Operation(Str(sOpen), Str(APP), TRUE)
             ELSE Undef

toOperation(val) ==
    IF isObject(val) THEN val
    ELSE LET APP == toStringSafe(val)
         IN  IF ~isEmptyString(Str(APP))
             THEN Operation(Str(sEmpty), Str(APP), TRUE)
             ELSE Undef

\* Enumerable.from(filterConditionalItems([op], true)).firstOrDefault(null)
conditionFilter(op) ==
    LET kept == filterConditionalItems(<<op>>)
    IN  IF kept = <<>> THEN Null ELSE kept[1]

\* The switch on TYPE: the executor, or Undef.
NoExecutor == "none"
OpenExecute == "deploy_targets_operations_open.execute"

executorForMutant(TYPE) == OpenExecute

executorFor(TYPE) ==
    IF TYPE = sEmpty \/ TYPE = sOpen THEN OpenExecute ELSE NoExecutor

\* The execution context of one operation.
NoContext == [k |-> "undefined"]

newContext(op, TYPE, ev, t, prev) ==
    [k |-> "context", args |-> <<>>, event |-> ev, operation |-> op,
     previousOperation |-> prev, target |-> t, type |-> TYPE]

\* prevOperation = CTX: what the next context is linked to.
linkPreviousMutant(CTX, prev) == prev

linkPrevious(CTX, prev) == CTX

\* ABORT: the settled result, read with the default true.
abortMutant(result) == ~toBooleanSafe(result, FALSE)

abort(result) == ~toBooleanSafe(result, TRUE)

\* if (ABORT) return false: where the call goes after a settled result.
abortOrContinueMutant(result) == "loop"

abortOrContinue(result) == IF abort(result) THEN "done" ELSE "loop"

\* The call: the null check, the event switch, asArray.
executeTargetOperations ==
    /\ opsPc = "idle"
    /\ \E t \in OpsTargets \cup {Null}, ev \in {BeforeDeploy, AfterDeployed} :
        /\ target' = t
        /\ operationEvent' = ev
        /\ IF t.k = "null"
           THEN /\ opsPc' = "done"
                /\ opsRet' = Undef
                /\ OPS' = <<>>
           ELSE /\ opsPc' = "loop"
                /\ opsRet' = Pending
                /\ OPS' = asArray(operationsFromTarget(t, ev))
    /\ UNCHANGED <<idx, prevOperation, isInFinalizeState, begun, invoked,
                   results, finalizedMidChain, earlierInvoked>>
    /\ UNCHANGED <<pullVars, namesVars, flowVars>>

\* The call has settled and the workspace is ready for a further call, whose
\* locals are its own (let prevOperation, the for-of loop).
callAgain ==
    /\ opsPc = "done"
    /\ opsPc' = "idle"
    /\ target' = Null
    /\ operationEvent' = BeforeDeploy
    /\ OPS' = <<>>
    /\ idx' = 1
    /\ prevOperation' = NoContext
    /\ opsRet' = Pending
    /\ begun' = <<>>
    /\ invoked' = <<>>
    /\ results' = <<>>
    /\ finalizedMidChain' = FALSE
    /\ earlierInvoked' = (earlierInvoked \/ invoked # <<>>)
    /\ UNCHANGED isInFinalizeState
    /\ UNCHANGED <<pullVars, namesVars, flowVars>>

\* The loop is exhausted: return true.
ReturnTrue ==
    /\ opsPc = "loop"
    /\ idx > Len(OPS)
    /\ opsPc' = "done"
    /\ opsRet' = Bool(TRUE)
    /\ UNCHANGED <<target, operationEvent, OPS, idx, prevOperation,
                   isInFinalizeState, begun, invoked, results, finalizedMidChain,
                   earlierInvoked>>
    /\ UNCHANGED <<pullVars, namesVars, flowVars>>

\* One iteration of the loop, up to its return, its continue or its await.
Iteration ==
    /\ opsPc = "loop"
    /\ idx <= Len(OPS)
    /\ begun' = Append(begun, [idx |-> idx, fin |-> isInFinalizeState])
    /\ IF finalizeCheck(isInFinalizeState)
       THEN /\ opsPc' = "done"
            /\ opsRet' = Bool(FALSE)
            /\ UNCHANGED <<idx, prevOperation, invoked>>
       ELSE LET operationToExecute == conditionFilter(toOperation(OPS[idx]))
            IN  IF ~isObject(operationToExecute)
                THEN /\ idx' = idx + 1
                     /\ UNCHANGED <<opsPc, opsRet, prevOperation, invoked>>
                ELSE LET TYPE == normalizeString(operationToExecute.type)
                         executor == executorFor(TYPE)
                         CTX == newContext(operationToExecute, TYPE,
                                           operationEvent, target, prevOperation)
                     IN  IF executor = NoExecutor
                         THEN /\ idx' = idx + 1
                              /\ UNCHANGED <<opsPc, opsRet, prevOperation, invoked>>
                         ELSE /\ prevOperation' = linkPrevious(CTX, prevOperation)
                              /\ invoked' = Append(invoked,
                                     [idx |-> idx, executor |-> executor, ctx |-> CTX])
                              /\ opsPc' = "await"
                              /\ UNCHANGED <<idx, opsRet>>
    /\ UNCHANGED <<target, operationEvent, OPS, isInFinalizeState, results,
                   finalizedMidChain, earlierInvoked>>
    /\ UNCHANGED <<pullVars, namesVars, flowVars>>

\* The awaited executor settles: a throw rejects the call, ABORT returns
\* false, anything else goes on with the next entry.
ExecutorSettles ==
    /\ opsPc = "await"
    /\ \E r \in ExecutorResults :
        /\ results' = Append(results, r)
        /\ IF r = Thrown
           THEN /\ opsPc' = "done"
                /\ opsRet' = Rejected
                /\ UNCHANGED idx
           ELSE IF abortOrContinue(r) = "done"
                THEN /\ opsPc' = "done"
                     /\ opsRet' = Bool(FALSE)
                     /\ UNCHANGED idx
                ELSE /\ opsPc' = "loop"
                     /\ idx' = idx + 1
                     /\ UNCHANGED opsRet
    /\ UNCHANGED <<target, operationEvent, OPS, prevOperation,
                   isInFinalizeState, begun, invoked, finalizedMidChain,
                   earlierInvoked>>
    /\ UNCHANGED <<pullVars, namesVars, flowVars>>

\* The workspace enters its finalize state: before the call, or while the
\* call is suspended on an executor.
SetFinalize ==
    /\ ~isInFinalizeState
    /\ opsPc \in {"idle", "await"}
    /\ isInFinalizeState' = TRUE
    /\ finalizedMidChain' = (opsPc = "await")
    /\ UNCHANGED <<opsPc, target, operationEvent, OPS, idx, prevOperation,
                   opsRet, begun, invoked, results, earlierInvoked>>
    /\ UNCHANGED <<pullVars, namesVars, flowVars>>

InitOpsVars ==
    /\ opsPc = "idle"
    /\ target = Null
    /\ operationEvent = BeforeDeploy
    /\ OPS = <<>>
    /\ idx = 1
    /\ prevOperation = NoContext
    /\ isInFinalizeState = FALSE
    /\ opsRet = Pending
    /\ begun = <<>>
    /\ invoked = <<>>
    /\ results = <<>>
    /\ finalizedMidChain = FALSE
    /\ earlierInvoked = FALSE

InitPullIdle ==
    /\ pullPc = "idle"
    /\ plugins = <<>>
    /\ files = Null
    /\ pullTarget = Null
    /\ PLUGINS = <<>>
    /\ PI = 0
    /\ ctxFiles = <<>>
    /\ dpos = 1
    /\ beforeCalled = FALSE
    /\ persisting = FALSE
    /\ pullRet = Pending
    /\ log = <<>>
    /\ written = {}
    /\ warnings = 0
    /\ turns = <<>>
    /\ calls = <<>>
    /\ inFlight = 0
    /\ lastCompletion = Null

InitOps == InitOpsVars /\ InitPullIdle /\ InitNamesIdle /\ InitFlowIdle

NextOps ==
    \/ executeTargetOperations
    \/ Iteration
    \/ ReturnTrue
    \/ ExecutorSettles
    \/ SetFinalize

\* The operation chain of one executeTargetOperations call.
SpecOps == InitOps /\ [][NextOps]_vars

NextCalls ==
    \/ NextOps
    \/ callAgain

\* The operation chains of the calls of one run, one call after the other.
SpecCalls == InitOps /\ [][NextCalls]_vars

-----------------------------------------------------------------------------
(* pull.ts: pullFilesFrom *)

sFtp == <<"f", "t", "p">>
sFtpRaw == <<" ", "F", "T", "P">>
sSftp == <<"s", "f", "t", "p">>

\* A plugin of the registry: its __type, canDownload, and whether it has a
\* downloadFiles function.
Plugin(type, can, has) ==
    [__type |-> type, canDownload |-> can, downloadFiles |-> has]

PluginKinds ==
    { Plugin(sEmpty, FALSE, FALSE), Plugin(sEmpty, TRUE, TRUE),
      Plugin(sFtp, TRUE, TRUE), Plugin(sFtp, FALSE, TRUE),
      Plugin(sFtp, TRUE, FALSE), Plugin(sSftp, TRUE, TRUE) }

\* The registries of the model.
Registries == SeqsUpTo(PluginKinds, MaxPlugins)

\* The files of the model.
FileNames == {"a", "b", "x"}

\* ME.toNameAndPath(f) is not false: the workspace resolves the name and
\* path of a and b, and not of x.
toNameAndPath(f) == f # "x"
\* The file lists passed to pullFilesFrom: no list, or a list of distinct
\* paths (pullFileFrom passes one file, pullPackage the files found).
Distinct(s) == \A i, j \in 1..Len(s) : s[i] = s[j] => i = j

FileLists ==
    {Null} \cup {Arr(s) : s \in {t \in SeqsUpTo(FileNames, MaxFiles) : Distinct(t)}}

\* The targets passed to pullFilesFrom.
PullTargets ==
    {Null, [k |-> "object", type |-> Str(sFtpRaw)], [k |-> "object", type |-> Undef]}

\* The guard on files: !files || files.length < 1
noFiles(fs) == fs.k # "array" \/ Len(fs.v) < 1

\* The filter of ME.context.plugins.
pluginFilterMutant(pi, TARGET_TYPE) ==
    /\ (sEmpty = pi.__type \/ TARGET_TYPE = pi.__type)
    /\ pi.canDownload
    /\ pi.downloadFiles

pluginFilter(pi, TARGET_TYPE) ==
    \/ sEmpty = pi.__type
    \/ (TARGET_TYPE = pi.__type /\ pi.canDownload /\ pi.downloadFiles)

RECURSIVE positionsFrom(_, _, _)
\* The positions i..Len(registry) whose plugin passes the filter, in order.
positionsFrom(registry, TARGET_TYPE, i) ==
    IF i > Len(registry) THEN <<>>
    ELSE (IF pluginFilter(registry[i], TARGET_TYPE) THEN <<i>> ELSE <<>>)
         \o positionsFrom(registry, TARGET_TYPE, i + 1)

\* PLUGINS, as the registry positions of the plugins kept by the filter.
filterPlugins(registry, t) == positionsFrom(registry, normalizeString(t.type), 1)

\* if (PLUGINS.length < 1): warn and return.
noPluginsMutant(P) == FALSE

noPlugins(P) == Len(P) < 1

\* PLUGINS after PLUGINS.shift().
shiftedMutant(P) == <<>>

shifted(P) == Tail(P)

\* CTX.files: files.map(...).filter(f => null !== f), as the files whose
\* name and path were resolved.
contextFilesMutant(fs) ==
    IF \A i \in 1..Len(fs) : toNameAndPath(fs[i]) THEN fs ELSE <<>>

contextFiles(fs) == SelectSeq(fs, toNameAndPath)

\* What the loop appends before the plugin is called: an empty line, the
\* start banner for more than one file, a line per unresolved file.
linesBeforeCall(fs) ==
    LET unresolved == SelectSeq(fs, LAMBDA f : ~toNameAndPath(f))
    IN  <<[line |-> "", file |-> ""]>>
        \o (IF Len(fs) > 1 THEN <<[line |-> "start", file |-> ""]>> ELSE <<>>)
        \o [i \in 1..Len(unresolved) |->
               [line |-> "cannotDetect", file |-> unresolved[i]]]

\* await Promise.resolve(PI.downloadFiles(CTX)): the loop is suspended until
\* the call settles.
awaitDownloadMutant == "loop"

awaitDownload == "plugin"

\* The catch of the loop body: the error is logged and the loop goes on.
catchErrorMutant(e) == [pc |-> "done", ret |-> Rejected]

catchError(e) == [pc |-> "loop", ret |-> Pending]

\* The call with the arguments fs and t: the guards, the filter, the
\* warning.
pullFilesFromCall(fs, t) ==
    /\ files' = fs
    /\ pullTarget' = t
    /\ IF noFiles(fs) \/ t.k = "null"
       THEN /\ pullPc' = "done"
            /\ pullRet' = Undef
            /\ UNCHANGED <<PLUGINS, warnings>>
       ELSE LET filtered == filterPlugins(plugins, t)
            IN  /\ PLUGINS' = filtered
                /\ IF noPlugins(filtered)
                   THEN /\ warnings' = warnings + 1
                        /\ pullPc' = "done"
                        /\ pullRet' = Undef
                   ELSE /\ pullPc' = "loop"
                        /\ UNCHANGED <<warnings, pullRet>>
    /\ UNCHANGED <<plugins, PI, ctxFiles, dpos, beforeCalled, persisting, log,
                   written, turns, calls, inFlight, lastCompletion>>

\* A call of pullFilesFrom.
pullFilesFrom ==
    /\ pullPc = "idle"
    /\ \E fs \in FileLists, t \in PullTargets : pullFilesFromCall(fs, t)
    /\ UNCHANGED <<opsVars, namesVars, flowVars>>

\* The condition of the loop, while (PLUGINS.length > 0): nothing but the
\* plugins left decides whether the loop goes on.
morePluginsMutant(P) == Len(P) > 0 /\ ~isInFinalizeState

morePlugins(P) == Len(P) > 0

\* while (PLUGINS.length > 0) is over: the call resolves.
PullReturn ==
    /\ pullPc = "loop"
    /\ ~morePlugins(PLUGINS)
    /\ pullPc' = "done"
    /\ pullRet' = Undef
    /\ UNCHANGED <<plugins, files, pullTarget, PLUGINS, PI,
                   ctxFiles, dpos, beforeCalled, persisting, log, written,
                   warnings, turns, calls, inFlight, lastCompletion>>
    /\ UNCHANGED <<opsVars, namesVars, flowVars>>

\* One turn of the loop up to the await of PI.downloadFiles(CTX): the shift,
\* the banner, the descriptors, the call. Calling a plugin that has no
\* downloadFiles throws a TypeError, which the catch logs.
PluginTurn ==
    /\ pullPc = "loop"
    /\ morePlugins(PLUGINS)
    /\ LET pi == Head(PLUGINS)
           CTX == contextFiles(files.v)
           before == linesBeforeCall(files.v)
       IN  /\ PLUGINS' = shifted(PLUGINS)
           /\ IF plugins[pi].downloadFiles
              THEN /\ PI' = pi
                   /\ ctxFiles' = CTX
                   /\ dpos' = 1
                   /\ beforeCalled' = FALSE
                   /\ calls' = Append(calls, [plugin |-> pi, files |-> CTX])
                   /\ inFlight' = inFlight + 1
                   /\ turns' = Append(turns, [plugin |-> pi, outcome |-> "pending"])
                   /\ log' = before
                   /\ pullPc' = awaitDownload
                   /\ UNCHANGED <<pullRet, lastCompletion>>
              ELSE /\ turns' = Append(turns, [plugin |-> pi, outcome |-> "typeError"])
                   /\ log' = before \o <<[line |-> "failed", file |-> ""]>>
                   /\ pullPc' = catchError("typeError").pc
                   /\ pullRet' = catchError("typeError").ret
                   /\ UNCHANGED <<PI, ctxFiles, dpos, beforeCalled, calls, inFlight,
                                  lastCompletion>>
    /\ UNCHANGED <<plugins, files, pullTarget, persisting, written, warnings>>
    /\ UNCHANGED <<opsVars, namesVars, flowVars>>

\* SF.onBeforeDownload: what it appends for file f of the file list fs.
beforeDownloadLinesMutant(fs, f) ==
    IF Len(fs) > 1 THEN <<[line |-> "pulling", file |-> f]>> ELSE <<>>

beforeDownloadLines(fs, f) == <<[line |-> "pulling", file |-> f]>>

\* The plugin calls SF.onBeforeDownload of the descriptor it works on.
onBeforeDownload ==
    /\ pullPc = "plugin"
    /\ dpos <= Len(ctxFiles)
    /\ ~beforeCalled
    /\ beforeCalled' = TRUE
    /\ log' = log \o beforeDownloadLines(files.v, ctxFiles[dpos])
    /\ UNCHANGED <<pullPc, plugins, files, pullTarget, PLUGINS, PI,
                   ctxFiles, dpos, persisting, pullRet, written, warnings, turns,
                   calls, inFlight, lastCompletion>>
    /\ UNCHANGED <<opsVars, namesVars, flowVars>>

\* What the plugin passes to SF.onDownloadCompleted: an error; no error and
\* no downloaded file; no error and a downloaded file.
Completions == {"error", "noFile", "file"}

\* How the read and the write of a downloaded file go.
Persists == {"ok", "readThrows", "writeThrows"}

\* SF.onDownloadCompleted up to its first await: an error is thrown and
\* caught, which logs it; without a downloaded file [OK] is logged; with one
\* the callback suspends on downloadedFile.read() and writeFile.
completed(c) ==
    CASE c = "error" ->
            [persist |-> FALSE, settles |-> "resolved",
             lines |-> <<[line |-> "ERROR", file |-> ""]>>]
      [] c = "noFile" ->
            [persist |-> FALSE, settles |-> "resolved",
             lines |-> <<[line |-> "OK", file |-> ""]>>]
      [] c = "file" -> [persist |-> TRUE, settles |-> "pending", lines |-> <<>>]

\* SF.onDownloadCompleted after its awaits: [OK] follows the write; a read
\* or a write that throws is caught, which logs the error.
persistedMutant(p) ==
    CASE p = "ok" ->
            [written |-> TRUE, settles |-> "resolved",
             lines |-> <<[line |-> "OK", file |-> ""]>>]
      [] p = "readThrows" ->
            [written |-> FALSE, settles |-> "resolved",
             lines |-> <<[line |-> "ERROR", file |-> ""]>>]
      [] p = "writeThrows" ->
            [written |-> FALSE, settles |-> "resolved",
             lines |-> <<[line |-> "OK", file |-> ""], [line |-> "ERROR", file |-> ""]>>]

persisted(p) ==
    CASE p = "ok" ->
            [written |-> TRUE, settles |-> "resolved",
             lines |-> <<[line |-> "OK", file |-> ""]>>]
      [] p = "readThrows" ->
            [written |-> FALSE, settles |-> "resolved",
             lines |-> <<[line |-> "ERROR", file |-> ""]>>]
      [] p = "writeThrows" ->
            [written |-> FALSE, settles |-> "resolved",
             lines |-> <<[line |-> "ERROR", file |-> ""]>>]

\* The plugin calls SF.onDownloadCompleted of the descriptor it works on,
\* after its onBeforeDownload, and awaits it.
onDownloadCompleted ==
    /\ pullPc = "plugin"
    /\ dpos <= Len(ctxFiles)
    /\ beforeCalled
    /\ ~persisting
    /\ \E c \in Completions :
        LET o == completed(c)
        IN  /\ log' = log \o o.lines
            /\ persisting' = o.persist
            /\ lastCompletion' = [k |-> "completion", file |-> ctxFiles[dpos],
                                  passed |-> c,
                                  result |-> IF o.persist THEN "pending" ELSE "none",
                                  settled |-> o.settles]
            /\ IF o.persist
               THEN UNCHANGED <<dpos, beforeCalled>>
               ELSE /\ dpos' = dpos + 1
                    /\ beforeCalled' = FALSE
    /\ UNCHANGED <<pullPc, plugins, files, pullTarget, PLUGINS, PI,
                   ctxFiles, pullRet, written, warnings, turns, calls, inFlight>>
    /\ UNCHANGED <<opsVars, namesVars, flowVars>>

\* The read and the write the completion callback awaits settle, and the
\* callback runs to its end.
writeFileSettles ==
    /\ pullPc = "plugin"
    /\ persisting
    /\ \E p \in Persists :
        LET o == persisted(p)
        IN  /\ written' = IF o.written THEN written \cup {ctxFiles[dpos]} ELSE written
            /\ log' = log \o o.lines
            /\ lastCompletion' = [lastCompletion EXCEPT !.result = p,
                                                         !.settled = o.settles]
    /\ persisting' = FALSE
    /\ dpos' = dpos + 1
    /\ beforeCalled' = FALSE
    /\ UNCHANGED <<pullPc, plugins, files, pullTarget, PLUGINS, PI,
                   ctxFiles, pullRet, warnings, turns, calls, inFlight>>
    /\ UNCHANGED <<opsVars, namesVars, flowVars>>

\* The awaited PI.downloadFiles(CTX) settles: resolved, the finish banner is
\* logged for more than one file; rejected (or thrown), the catch logs it.
downloadFilesSettles ==
    /\ pullPc = "plugin"
    /\ ~persisting
    /\ \E how \in {"resolved", "rejected"} :
        /\ turns' = [turns EXCEPT ![Len(turns)].outcome = how]
        /\ IF how = "resolved"
           THEN /\ log' = IF Len(files.v) > 1
                          THEN Append(log, [line |-> "finished", file |-> ""])
                          ELSE log
                /\ pullPc' = "loop"
                /\ UNCHANGED pullRet
           ELSE /\ log' = Append(log, [line |-> "failed", file |-> ""])
                /\ pullPc' = catchError(how).pc
                /\ pullRet' = catchError(how).ret
    /\ PI' = 0
    /\ ctxFiles' = <<>>
    /\ dpos' = 1
    /\ beforeCalled' = FALSE
    /\ inFlight' = inFlight - 1
    /\ lastCompletion' = Null
    /\ UNCHANGED <<plugins, files, pullTarget, PLUGINS, persisting, written,
                   warnings, calls>>
    /\ UNCHANGED <<opsVars, namesVars, flowVars>>

InitPull ==
    /\ InitOpsVars
    /\ InitNamesIdle
    /\ InitFlowIdle
    /\ plugins \in Registries
    /\ pullPc = "idle"
    /\ files = Null
    /\ pullTarget = Null
    /\ PLUGINS = <<>>
    /\ PI = 0
    /\ ctxFiles = <<>>
    /\ dpos = 1
    /\ beforeCalled = FALSE
    /\ persisting = FALSE
    /\ pullRet = Pending
    /\ log = <<>>
    /\ written = {}
    /\ warnings = 0
    /\ turns = <<>>
    /\ calls = <<>>
    /\ inFlight = 0
    /\ lastCompletion = Null

NextPull ==
    \/ pullFilesFrom
    \/ PluginTurn
    \/ PullReturn
    \/ onBeforeDownload
    \/ onDownloadCompleted
    \/ writeFileSettles
    \/ downloadFilesSettles

\* One pullFilesFrom call on a workspace with some plugin registry.
SpecPull == InitPull /\ [][NextPull]_vars

\* One of the two calls on a workspace. executeTargetOperations does not
\* read the plugin registry: its calls are explored on the workspace whose
\* registry is empty, those of pullFilesFrom on the workspaces with plugins.
NextEither ==
    \/ plugins = <<>> /\ NextOps
    \/ plugins # <<>> /\ NextPull

SpecEither == InitPull /\ [][NextEither]_vars

\* One of the two calls on a workspace that may enter its finalize state at
\* any time: before a pullFilesFrom call, in its loop, or while a plugin
\* transfers.
NextFinalize ==
    \/ plugins = <<>> /\ NextOps
    \/ plugins # <<>> /\ (NextPull \/ SetFinalize)

SpecFinalize == InitPull /\ [][NextFinalize]_vars

-----------------------------------------------------------------------------
(* pull.ts: pullFileFrom, pullPackage; targets.ts: showTargetQuickPick *)

\* How a call rejects: with the error of the ownership check, or with what
\* the caller's action threw.
ConfigurationError == [k |-> "rejected", error |-> "cannot be pulled"]
ActionError == [k |-> "rejected", error |-> "action"]

\* The pkg argument of pullPackage.
Packages == {Null, [k |-> "object"]}

\* What ME.findFilesByFilter(pkg) finds.
FoundFiles == {fs \in FileLists : fs.k = "array"}

\* What ME.getTargets() returns.
WorkspaceTargets == SeqsUpTo(PullTargets \ {Null}, MaxTargets)

\* The targets argument of showTargetQuickPick: nothing, one target, or an
\* array whose entries are targets, null or not objects.
QuickPickTargets ==
    {Undef} \cup (PullTargets \ {Null})
            \cup {Arr(ts) : ts \in SeqsUpTo(PullTargets \cup {Str(sFile)}, MaxTargets)}

\* What the caller's action settles with: nothing, a result, or a throw.
ActionResults == {Undef, Str(sFile), Thrown}

\* if (!ME.canBeHandledByMe(...)) throw new Error(...)
ownershipErrorMutant(can) == FALSE

ownershipError(can) == ~can

\* if (1 === QUICK_PICK_ITEMS.length): the item is selected without asking.
singleItemMutant(items) == FALSE

singleItem(items) == 1 = Len(items)

\* The item action of showTargetQuickPick resolves to nothing, whatever the
\* caller's action resolved to: async () => { if (action) await action(t) }
itemActionResult(r) == Undef

\* selectedItem.action() of item i is called: pullPackage calls pullFilesFrom
\* with the files found and target i, showTargetQuickPick the caller's
\* action, if there is one.
runAction(fn, fs, ts, i, act) ==
    /\ IF fn = "pullPackage"
       THEN /\ pullFilesFromCall(fs, ts[i])
            /\ actions' = Append(actions, [item |-> i, target |-> ts[i], called |-> TRUE])
            /\ flowPc' = "pull"
            /\ UNCHANGED flowRet
       ELSE /\ UNCHANGED pullVars
            /\ actions' = Append(actions, [item |-> i, target |-> ts[i], called |-> act])
            /\ IF act
               THEN /\ flowPc' = "action"
                    /\ UNCHANGED flowRet
               ELSE /\ flowPc' = "done"
                    /\ flowRet' = itemActionResult(Undef)

\* From QUICK_PICK_ITEMS on: the warning for no item, the only item, or the
\* quick pick.
selectFrom(fn, fs, ts, act) ==
    /\ QUICK_PICK_ITEMS' = ts
    /\ IF Len(ts) < 1
       THEN /\ warnings' = warnings + 1
            /\ flowPc' = "done"
            /\ flowRet' = Undef
            /\ UNCHANGED <<pullButWarnings, selectedItem, choosers, actions>>
       ELSE IF singleItem(ts)
            THEN /\ selectedItem' = 1
                 /\ runAction(fn, fs, ts, 1, act)
                 /\ UNCHANGED choosers
            ELSE /\ choosers' = choosers + 1
                 /\ flowPc' = "choose"
                 /\ UNCHANGED <<pullVars, selectedItem, actions, flowRet>>

\* pullFileFrom up to its await of pullFilesFrom.
pullFileFrom ==
    /\ flowPc = "idle"
    /\ pullPc = "idle"
    /\ flow' = "pullFileFrom"
    /\ \E t \in PullTargets :
        /\ item' = t
        /\ IF t.k = "null"
           THEN /\ flowPc' = "done"
                /\ flowRet' = Undef
                /\ UNCHANGED <<pullVars, canBeHandledByMe, checks>>
           ELSE \E can \in BOOLEAN :
                /\ canBeHandledByMe' = can
                /\ checks' = checks + 1
                /\ IF ownershipError(can)
                   THEN /\ flowPc' = "done"
                        /\ flowRet' = ConfigurationError
                        /\ UNCHANGED pullVars
                   ELSE /\ \E file \in FileNames : pullFilesFromCall(Arr(<<file>>), t)
                        /\ flowPc' = "pull"
                        /\ UNCHANGED flowRet
    /\ UNCHANGED <<action, ifNoTargets, FILES_TO_PULL, QUICK_PICK_ITEMS,
                   selectedItem, searches, choosers, actions, actionResult>>
    /\ UNCHANGED <<opsVars, namesVars>>

\* pullPackage up to its await of ME.findFilesByFilter.
pullPackage ==
    /\ flowPc = "idle"
    /\ pullPc = "idle"
    /\ flow' = "pullPackage"
    /\ \E pkg \in Packages :
        /\ item' = pkg
        /\ IF pkg.k = "null"
           THEN /\ flowPc' = "done"
                /\ flowRet' = Undef
                /\ UNCHANGED <<canBeHandledByMe, checks, searches>>
           ELSE \E can \in BOOLEAN :
                /\ canBeHandledByMe' = can
                /\ checks' = checks + 1
                /\ IF ownershipError(can)
                   THEN /\ flowPc' = "done"
                        /\ flowRet' = ConfigurationError
                        /\ UNCHANGED searches
                   ELSE /\ searches' = searches + 1
                        /\ flowPc' = "search"
                        /\ UNCHANGED flowRet
    /\ UNCHANGED <<action, ifNoTargets, FILES_TO_PULL, QUICK_PICK_ITEMS,
                   selectedItem, choosers, actions, actionResult>>
    /\ UNCHANGED <<opsVars, pullVars, namesVars>>

\* The files are found: the warning for no file, the items of the
\* workspace's targets, the selection.
findFilesByFilterSettles ==
    /\ flowPc = "search"
    /\ \E found \in FoundFiles :
        /\ FILES_TO_PULL' = found
        /\ IF Len(found.v) < 1
           THEN /\ warnings' = warnings + 1
                /\ flowPc' = "done"
                /\ flowRet' = Undef
                /\ UNCHANGED <<pullButWarnings, QUICK_PICK_ITEMS, selectedItem,
                               choosers, actions>>
           ELSE \E ts \in WorkspaceTargets : selectFrom(flow, found, ts, TRUE)
    /\ UNCHANGED <<flow, item, canBeHandledByMe, checks, action, ifNoTargets,
                   searches, actionResult>>
    /\ UNCHANGED <<opsVars, namesVars>>

\* showTargetQuickPick up to its first await.
showTargetQuickPick ==
    /\ flowPc = "idle"
    /\ pullPc = "idle"
    /\ flow' = "showTargetQuickPick"
    /\ \E ts \in QuickPickTargets, act \in BOOLEAN,
          no \in {Bool(FALSE), Str(sFile)} :
        /\ item' = ts
        /\ action' = act
        /\ ifNoTargets' = no
        /\ selectFrom("showTargetQuickPick", Null,
                      SelectSeq(asArray(ts), isObject), act)
    /\ UNCHANGED <<canBeHandledByMe, checks, FILES_TO_PULL, searches,
                   actionResult>>
    /\ UNCHANGED <<opsVars, namesVars>>

\* vscode.window.showQuickPick settles: with an item, whose action is
\* called, or with nothing.
showQuickPickSettles ==
    /\ flowPc = "choose"
    /\ \E pick \in 0..Len(QUICK_PICK_ITEMS) :
        /\ selectedItem' = pick
        /\ IF pick = 0
           THEN /\ flowPc' = "done"
                /\ flowRet' = Undef
                /\ UNCHANGED <<pullVars, actions>>
           ELSE runAction(flow, FILES_TO_PULL, QUICK_PICK_ITEMS, pick, action)
    /\ UNCHANGED <<flow, item, canBeHandledByMe, checks, action, ifNoTargets,
                   FILES_TO_PULL, QUICK_PICK_ITEMS, searches, choosers,
                   actionResult>>
    /\ UNCHANGED <<opsVars, namesVars>>

\* The caller's action, awaited by the item action of showTargetQuickPick,
\* settles.
actionSettles ==
    /\ flowPc = "action"
    /\ \E r \in ActionResults :
        /\ actionResult' = r
        /\ flowRet' = IF r = Thrown THEN ActionError ELSE itemActionResult(r)
    /\ flowPc' = "done"
    /\ UNCHANGED <<flow, item, canBeHandledByMe, checks, action, ifNoTargets,
                   FILES_TO_PULL, QUICK_PICK_ITEMS, selectedItem, searches,
                   choosers, actions>>
    /\ UNCHANGED <<opsVars, pullVars, namesVars>>

\* The awaited pullFilesFrom has settled: pullFileFrom and pullPackage
\* resolve.
pullFilesFromSettles ==
    /\ flowPc = "pull"
    /\ pullPc = "done"
    /\ flowPc' = "done"
    /\ flowRet' = IF pullRet = Rejected THEN Rejected ELSE Undef
    /\ UNCHANGED <<flow, item, canBeHandledByMe, checks, action, ifNoTargets,
                   FILES_TO_PULL, QUICK_PICK_ITEMS, selectedItem, searches,
                   choosers, actions, actionResult>>
    /\ UNCHANGED <<opsVars, pullVars, namesVars>>

NextFlow ==
    \/ pullFileFrom
    \/ pullPackage
    \/ findFilesByFilterSettles
    \/ showTargetQuickPick
    \/ showQuickPickSettles
    \/ actionSettles
    \/ pullFilesFromSettles
    \/ PluginTurn
    \/ PullReturn
    \/ onBeforeDownload
    \/ onDownloadCompleted
    \/ writeFileSettles
    \/ downloadFilesSettles

\* The workspaces these calls are explored on: no plugin, or one.
InitFlow ==
    /\ InitPull
    /\ \A i \in DOMAIN plugins : i = Len(plugins)

\* One call of pullFileFrom, pullPackage or showTargetQuickPick.
SpecFlow == InitFlow /\ [][NextFlow]_vars

-----------------------------------------------------------------------------
(* targets.ts: getTargetName, getTargetsByName *)

sProdRaw == <<"P", "r", "o", "d", " ">>
sProd == <<"p", "r", "o", "d">>
sTest == <<"t", "e", "s", "t">>

\* The decimal digits, for the numbers the model prints.
Digits == <<"1", "2", "3", "4", "5", "6", "7", "8", "9">>

\* TRANSLATOR.t('targets.defaultName', nr): the default name of target nr.
defaultName(nr) == <<"T", "#", Digits[nr]>>

\* The names targets are configured with.
ConfiguredNames == {Undef, Str(sBlank), Str(sProdRaw), Str(sTest)}

\* The lists of targets of a workspace: __index is the position, from 0.
TargetLists ==
    {[i \in 1..Len(ns) |-> [k |-> "object", name |-> ns[i], __index |-> i - 1]] :
        ns \in SeqsUpTo(ConfiguredNames, MaxTargets)}

\* The names asked for.
RequestedNames ==
    {Str(sProdRaw), Str(sProd), Str(sTest), Str(sBlank),
     Str(<<"t", "#", "1">>), Str(<<"T", "#", "2", " ">>)}

\* string | string[]
RequestedLists ==
    {Undef} \cup RequestedNames
            \cup {Arr(s) : s \in SeqsUpTo(RequestedNames, MaxNames)}

getTargetNameMutant(t) ==
    LET name == toStringSafe(t.name)
    IN  IF name = <<>> THEN defaultName(t.__index + 1) ELSE name

getTargetName(t) ==
    LET name == trim(toStringSafe(t.name))
    IN  IF name = <<>> THEN defaultName(t.__index + 1) ELSE name

RECURSIVE distinct(_)
\* Enumerable.distinct(): the first occurrence of every element, in order.
distinct(s) ==
    IF s = <<>> THEN <<>>
    ELSE LET before == distinct(SubSeq(s, 1, Len(s) - 1))
             last == s[Len(s)]
         IN  IF \E i \in 1..Len(before) : before[i] = last
             THEN before
             ELSE Append(before, last)

RECURSIVE pushAll(_, _, _)
\* targetNames.forEach from name n on: EXISTING_TARGETS and
\* NON_EXISTING_TARGETS after the names n..Len(names).
pushAll(names, ts, n) ==
    IF n > Len(names) THEN [existing |-> <<>>, nonExisting |-> <<>>]
    ELSE LET tn == names[n]
             MATCHING_TARGETS ==
                 SelectSeq(ts, LAMBDA t : normalizeString(Str(getTargetName(t))) = tn)
             rest == pushAll(names, ts, n + 1)
         IN  IF Len(MATCHING_TARGETS) > 0
             THEN [existing |-> MATCHING_TARGETS \o rest.existing,
                   nonExisting |-> rest.nonExisting]
             ELSE [existing |-> rest.existing,
                   nonExisting |-> <<tn>> \o rest.nonExisting]

\* The names normalized and distinct, the targets as an array, the lookup.
lookup(names, ts) ==
    LET asked == asArray(names)
        normalized == distinct([i \in 1..Len(asked) |-> normalizeString(asked[i])])
    IN  pushAll(normalized, asArray(ts), 1)

\* The call: a warning for every name without a target and false, or the
\* targets found.
getTargetsByName ==
    /\ namesRet = Pending
    /\ LET found == lookup(targetNames, targets)
       IN  IF Len(found.nonExisting) > 0
           THEN /\ warnings' = warnings + Len(found.nonExisting)
                /\ namesRet' = Bool(FALSE)
           ELSE /\ namesRet' = Arr(found.existing)
                /\ UNCHANGED warnings
    /\ UNCHANGED <<targetNames, targets>>
    /\ UNCHANGED <<pullButWarnings, opsVars, flowVars>>

InitNames ==
    /\ InitOpsVars
    /\ InitPullIdle
    /\ InitFlowIdle
    /\ targetNames \in RequestedLists
    /\ targets \in {Arr(ts) : ts \in TargetLists}
                   \cup {ts[1] : ts \in {l \in TargetLists : Len(l) = 1}}
    /\ namesRet = Pending

NextNames == getTargetsByName

\* One getTargetsByName call.
SpecNames == InitNames /\ [][NextNames]_vars

-----------------------------------------------------------------------------
(* Claims about executeTargetOperations, checked under SpecOps. *)

\* The operation list the call reads for its event, as configured.
ConfiguredList ==
    IF operationEvent = AfterDeployed THEN target.deployed ELSE target.beforeDeploy

\* The values an executor may settle with that are not false.
Continuing == {Undef, Null, Bool(TRUE)}

\* Entry i of OPS is one an executor runs for (a non-blank string or an
\* included operation of type '' or 'open').
Runnable(i) == \E v \in 1..Len(invoked) : invoked[v].idx = i

\* C1: the chain is abandoned after an executor exactly when its settled
\* result is false: after a false result nothing more is invoked and the call
\* returns false; after undefined, null or true the call goes on with the
\* next entry (or returns true when there is none). In a chain of 3 runnable
\* entries whose 2nd settles with false, executors 1 and 2 run, executor 3
\* does not, and the result is false.
C1_AbortExactlyOnFalse ==
    \A i \in 1..Len(results) :
        /\ results[i] = Bool(FALSE) =>
              /\ i = Len(results)
              /\ Len(invoked) = i
              /\ opsPc = "done"
              /\ opsRet = Bool(FALSE)
        /\ results[i] \in Continuing =>
              LET k == invoked[i].idx
              IN  \/ opsPc = "loop" /\ idx = k + 1 /\ opsRet = Pending
                  \/ \E b \in 1..Len(begun) : begun[b].idx = k + 1
                  \/ k = Len(OPS) /\ opsPc = "done" /\ opsRet = Bool(TRUE)
        /\ (Len(OPS) = 3 /\ i = 2 /\ invoked[2].idx = 2 /\ results[2] = Bool(FALSE)) =>
              /\ [v \in 1..Len(invoked) |-> invoked[v].idx] = <<1, 2>>
              /\ opsRet = Bool(FALSE)

\* C1's case: three runnable entries, the 2nd settled with false.
C1_Witness ==
    /\ Len(OPS) = 3
    /\ OPS[3] = Operation(Str(sOpen), Str(sFile), TRUE)
    /\ Len(results) = 2
    /\ results[1] \in Continuing
    /\ results[2] = Bool(FALSE)
    /\ [v \in 1..Len(invoked) |-> invoked[v].idx] = <<1, 2>>
    /\ ~isInFinalizeState
    /\ opsPc = "done"

\* C2: if the finalize flag is set when the iteration for entry k begins, no
\* executor is invoked for entry k or a later one and the call returns false;
\* the executors invoked for the entries before k ran and settled as usual.
C2_FinalizeStopsChain ==
    \A j \in 1..Len(begun) :
        begun[j].fin =>
            /\ j = Len(begun)
            /\ \A v \in 1..Len(invoked) : invoked[v].idx < begun[j].idx
            /\ Len(results) = Len(invoked)
            /\ \A r \in 1..Len(results) : results[r] \in Continuing
            /\ opsPc = "done"
            /\ opsRet = Bool(FALSE)

\* C2's case: the flag is set before entry 2 of 3 runnable entries starts.
C2_Witness ==
    /\ Len(OPS) = 3
    /\ \A i \in 1..3 : OPS[i] = Str(sFile)
    /\ Len(begun) = 2
    /\ begun[2] = [idx |-> 2, fin |-> TRUE]
    /\ Len(invoked) = 1
    /\ opsRet = Bool(FALSE)

\* Some executor of the call settled with false.
SomeAbort == \E r \in 1..Len(results) : results[r] = Bool(FALSE)

\* Some iteration of the call began with the finalize flag set.
SomeFinalizedIteration == \E j \in 1..Len(begun) : begun[j].fin

\* The call returned (it did not reject) for a non-null target.
Returned == opsPc = "done" /\ target.k = "object" /\ opsRet.k = "boolean"

\* C3 as stated: the call returns false whenever an executor aborted or the
\* workspace entered the finalize state at any moment between the start of
\* the chain and its return.
C3_Original ==
    Returned =>
        /\ opsRet = Bool(TRUE) => ~SomeAbort /\ ~finalizedMidChain
        /\ (SomeAbort \/ finalizedMidChain) => opsRet = Bool(FALSE)

\* C3, amended: the call returns true only if every entry's iteration began
\* with the flag unset and no executor settled with false (or threw), and it
\* returns false exactly when an executor settled with false or an iteration
\* began with the flag set.
C3_ReturnValue ==
    Returned =>
        /\ opsRet = Bool(TRUE) =>
              /\ [j \in 1..Len(begun) |-> begun[j].idx] = [j \in 1..Len(OPS) |-> j]
              /\ ~SomeAbort
              /\ ~SomeFinalizedIteration
              /\ \A r \in 1..Len(results) : results[r] \in Continuing
        /\ opsRet = Bool(FALSE) <=> (SomeAbort \/ SomeFinalizedIteration)

\* C3's case: the flag became set while the last executor was in flight, and
\* the call returned true.
C3_Witness ==
    /\ Returned
    /\ finalizedMidChain
    /\ Len(invoked) >= 1
    /\ invoked[Len(invoked)].idx = Len(OPS)
    /\ opsRet = Bool(TRUE)

\* C4: with an empty or absent operation list for the event, the call
\* returns true and invokes no executor, whatever the finalize flag.
C4_EmptyListReturnsTrue ==
    (opsPc # "idle" /\ target.k = "object"
        /\ ConfiguredList \in {Undef, Arr(<<>>)}) =>
            /\ invoked = <<>>
            /\ opsRet \in {Pending, Bool(TRUE)}
            /\ opsPc = "done" => opsRet = Bool(TRUE)

\* C4's case: the list is absent or empty, the flag is set, the call returned.
C4_Witness ==
    /\ opsPc = "done"
    /\ target.k = "object"
    /\ ConfiguredList \in {Undef, Arr(<<>>)}
    /\ isInFinalizeState
    /\ opsRet = Bool(TRUE)

\* The context handed to the v-th invoked executor's predecessor link.
PrevOf(v) == IF v = 1 THEN NoContext ELSE invoked[v - 1].ctx

\* The invocation the structured operation {type: "open", target: s} gets in
\* the place of the v-th invocation.
StructuredInvocation(s, v) ==
    LET op == Operation(Str(sOpen), Str(s), TRUE)
        TYPE == normalizeString(op.type)
    IN  [idx |-> invoked[v].idx, executor |-> executorFor(TYPE),
         ctx |-> newContext(op, TYPE, operationEvent, target, PrevOf(v))]

\* C5 as stated: a bare string s is invoked exactly as {type: "open",
\* target: s}: the same executor with the same context.
C5_Original ==
    \A v \in 1..Len(invoked) :
        OPS[invoked[v].idx].k = "string" =>
            invoked[v] = StructuredInvocation(OPS[invoked[v].idx].v, v)

\* C5, amended: a bare string s that is not blank is invoked with the same
\* executor, event, target, args and previous-operation link as {type:
\* "open", target: s} and with an operation whose target is s, but the type
\* of its operation and the normalized type of its context are '', where the
\* structured operation has "open".
C5_BareStringInvocation ==
    /\ \A v \in 1..Len(invoked) :
        OPS[invoked[v].idx].k = "string" =>
            LET mine == invoked[v]
                other == StructuredInvocation(OPS[invoked[v].idx].v, v)
            IN  /\ mine.executor = other.executor
                /\ mine.ctx.event = other.ctx.event
                /\ mine.ctx.target = other.ctx.target
                /\ mine.ctx.args = other.ctx.args
                /\ mine.ctx.previousOperation = other.ctx.previousOperation
                /\ mine.ctx.operation.target = other.ctx.operation.target
                /\ mine.ctx.operation.type = Str(sEmpty)
                /\ mine.ctx.type = sEmpty
                /\ other.ctx.operation.type = Str(sOpen)
                /\ other.ctx.type = sOpen
    /\ \A j \in 1..Len(begun) :
        LET val == OPS[begun[j].idx]
        IN  (val.k = "string" /\ ~begun[j].fin /\ trim(val.v) # <<>>) =>
                Runnable(begun[j].idx)

\* C5's case: a bare string entry was invoked after another operation.
C5_Witness ==
    \E v \in 2..Len(invoked) :
        /\ OPS[invoked[v].idx] = Str(sFile)
        /\ invoked[v].ctx.previousOperation # NoContext
        /\ Len(results) = v

-----------------------------------------------------------------------------
(* Claims about pullFilesFrom, checked under SpecPull. *)

\* The call passed its guards: a non-empty file list and a target.
Transferring ==
    /\ pullPc # "idle"
    /\ files.k = "array"
    /\ Len(files.v) >= 1
    /\ pullTarget.k = "object"

\* Plugin i of the registry is a wildcard: its type is the empty string.
Wildcard(i) == plugins[i].__type = <<>>

\* The type of the target, lower-cased and trimmed.
TargetType == trim(toLowerCase(toStringSafe(pullTarget.type)))

\* Plugin i has the type of the target.
TypeMatches(i) == plugins[i].__type = TargetType

\* Plugin i has the download capability.
Capable(i) == plugins[i].canDownload /\ plugins[i].downloadFiles

\* The registry positions of the matching plugins, in registration order.
MatchingPositions ==
    LET type == TargetType
    IN  SelectSeq([i \in 1..Len(plugins) |-> i],
                  LAMBDA i : Wildcard(i) \/ (plugins[i].__type = type /\ Capable(i)))

\* The plugins that had their turn, and those whose downloadFiles was called.
TurnPlugins == [i \in 1..Len(turns) |-> turns[i].plugin]
CallPlugins == [i \in 1..Len(calls) |-> calls[i].plugin]

IsPrefix(s, t) == Len(s) <= Len(t) /\ s = SubSeq(t, 1, Len(s))

\* C6 as stated: the batch download operation of every matching plugin is
\* invoked exactly once, in registry order.
C6_Original ==
    (Transferring /\ pullPc = "done" /\ MatchingPositions # <<>>) =>
        CallPlugins = MatchingPositions

\* C6, amended: every matching plugin gets exactly one turn, in registry
\* order, whatever the earlier turns ended in; in its turn its downloadFiles
\* is called exactly once if it has one, and the turn of a (wildcard) plugin
\* that has none ends in a caught TypeError.
C6_EveryMatchingPluginOnce ==
    Transferring =>
        LET matching == MatchingPositions
            had == TurnPlugins
        IN  /\ IsPrefix(had, matching)
            /\ CallPlugins = SelectSeq(had, LAMBDA i : plugins[i].downloadFiles)
            /\ \A n \in 1..Len(turns) :
                  (turns[n].outcome = "typeError") <=> ~plugins[turns[n].plugin].downloadFiles
            /\ pullPc = "done" => had = matching

\* C6's case: two matching plugins, the call of the first rejected, the
\* second was called all the same.
C6_Witness ==
    /\ pullPc = "done"
    /\ Len(turns) = 2
    /\ turns[1].outcome = "rejected"
    /\ turns[2].outcome = "resolved"
    /\ CallPlugins = <<1, 2>>

\* C7: the plugins selected for a target are, in registration order, the
\* wildcard plugins (whatever their download capability) and the plugins of
\* the target's normalized type that have the download capability; no other
\* plugin is selected.
C7_SelectedPlugins ==
    Transferring =>
        LET selected == TurnPlugins \o PLUGINS
            type == TargetType
        IN  /\ selected = MatchingPositions
            /\ \A i \in 1..Len(plugins) :
                  (\E n \in 1..Len(selected) : selected[n] = i) <=>
                      (Wildcard(i) \/ (plugins[i].__type = type /\ Capable(i)))
            /\ \A n \in 1..Len(selected) - 1 : selected[n] < selected[n + 1]

\* C7's case: a plugin of the target's type without the capability is left
\* out and a wildcard without the capability is selected.
C7_Witness ==
    /\ Transferring
    /\ pullPc = "loop"
    /\ Len(plugins) = 2
    /\ TypeMatches(1) /\ ~Capable(1)
    /\ Wildcard(2) /\ ~Capable(2)
    /\ PLUGINS = <<2>>

\* C8: with a non-empty file list and a target that no registered plugin
\* matches, the call shows exactly one warning, invokes no plugin, writes no
\* file and resolves.
C8_NoMatchingPlugin ==
    /\ warnings <= 1
    /\ (Transferring /\ MatchingPositions = <<>>) =>
          /\ pullPc = "done"
          /\ warnings = 1
          /\ turns = <<>>
          /\ calls = <<>>
          /\ written = {}
          /\ pullRet = Undef
    /\ warnings = 1 => (Transferring /\ MatchingPositions = <<>>)

\* C8's case: a registry with plugins none of which matches.
C8_Witness ==
    /\ Transferring
    /\ Len(plugins) >= 2
    /\ MatchingPositions = <<>>
    /\ pullPc = "done"
    /\ warnings = 1

\* The files of the call whose name and path resolve, in their order.
ResolvedFiles == SelectSeq(files.v, toNameAndPath)

\* C9: the descriptor list handed to each plugin holds exactly the files
\* whose name and path resolved, in their original order; a file that does
\* not resolve is left out and the plugin is called all the same, also when
\* no file is left.
C9_ResolvedFilesDispatched ==
    Transferring =>
        /\ \A c \in 1..Len(calls) : calls[c].files = ResolvedFiles
        /\ pullPc = "plugin" => ctxFiles = ResolvedFiles
        /\ \A n \in 1..Len(turns) :
              plugins[turns[n].plugin].downloadFiles =>
                  \E c \in 1..Len(calls) : calls[c].plugin = turns[n].plugin

\* C9's case: of two files the first does not resolve; the second was
\* dispatched and written.
C9_Witness ==
    /\ Transferring
    /\ files.v = <<"x", "b">>
    /\ Len(calls) >= 1
    /\ calls[1].files = <<"b">>
    /\ written = {"b"}

\* C10: no plugin-level failure (a batch call that throws or rejects) and no
\* file-level failure (an error passed to the completion callback, a read or
\* a write that throws) rejects the call: it resolves, after every matching
\* plugin has had its turn.
C10_NeverRejects ==
    /\ pullRet # Rejected
    /\ (pullPc # "done") <=> (pullRet = Pending)
    /\ (Transferring /\ pullPc = "done") =>
          /\ pullRet = Undef
          /\ PLUGINS = <<>>
          /\ Len(turns) = Len(MatchingPositions)
          /\ \A n \in 1..Len(turns) : turns[n].outcome # "pending"

\* C10's case: the first plugin's call rejected, in the second plugin's
\* call a completion callback met a failure, and the call resolved.
C10_Witness ==
    /\ pullPc = "done"
    /\ pullRet = Undef
    /\ Len(turns) = 2
    /\ turns[1].outcome = "rejected"
    /\ turns[2].outcome = "resolved"
    /\ \E n \in 1..Len(log) : log[n].line = "ERROR"

\* The outcome markers of a log: its [OK] and [ERROR: ...] lines.
Markers(lg) == SelectSeq(lg, LAMBDA l : l.line \in {"OK", "ERROR"})

okLine == [line |-> "OK", file |-> ""]
errorLine == [line |-> "ERROR", file |-> ""]

\* A step in which the completion callback of descriptor dpos runs to its end.
CompletionEnds == pullPc = "plugin" /\ dpos' = dpos + 1

\* C11: every invocation of a descriptor's completion callback resolves and
\* appends exactly one outcome marker, after the lines already logged, which
\* it leaves as they are: with an error passed nothing is written and the
\* marker is [ERROR]; with no error and a downloaded file the file is written
\* to its path and [OK] is logged, and not before the write has settled; with
\* a read or a write that throws nothing is written and the marker is
\* [ERROR]. The marker depends only on what was passed for this file.
C11_CompletionOutcome ==
    /\ [](pullPc = "plugin" =>
            /\ Len(Markers(log)) = dpos - 1
            /\ lastCompletion # Null =>
                  /\ persisting <=> lastCompletion.settled = "pending"
                  /\ ~persisting => lastCompletion.settled = "resolved")
    /\ [][(pullPc = "plugin" /\ persisting' /\ ~persisting) =>
            /\ lastCompletion'.passed = "file"
            /\ log' = log
            /\ written' = written]_vars
    /\ [][CompletionEnds =>
            LET f == ctxFiles[dpos]
                c == lastCompletion'
            IN  /\ c.file = f
                /\ c.settled = "resolved"
                /\ c.passed = "error" =>
                      /\ written' = written
                      /\ log' = Append(log, errorLine)
                /\ c.passed = "noFile" =>
                      /\ written' = written
                      /\ log' = Append(log, okLine)
                /\ c.passed = "file" =>
                      /\ persisting
                      /\ c.result \in Persists
                      /\ c.result = "ok" =>
                            /\ written' = written \cup {f}
                            /\ log' = Append(log, okLine)
                      /\ c.result \in {"readThrows", "writeThrows"} =>
                            /\ written' = written
                            /\ log' = Append(log, errorLine)]_vars

\* C11's case: of two files the first failed and the second was written:
\* [ERROR] for the first, [OK] for the second, one file on disk.
C11_Witness ==
    /\ pullPc = "plugin"
    /\ ctxFiles = <<"a", "b">>
    /\ dpos = 3
    /\ Markers(log) = <<errorLine, okLine>>
    /\ lastCompletion.result = "ok"
    /\ written = {"b"}

\* The per-file start messages of a log, as the files they name.
StartMessages(lg) ==
    LET pulling == SelectSeq(lg, LAMBDA l : l.line = "pulling")
    IN  [i \in 1..Len(pulling) |-> pulling[i].file]

\* The log holds the start banner of the batch.
HasStartBanner(lg) == \E n \in 1..Len(lg) : lg[n].line = "start"

\* C12 as stated: a per-file start message is logged only when the batch has
\* more than one file.
C12_Original ==
    Transferring => (StartMessages(log) # <<>> => Len(files.v) > 1)

\* C12, amended: the before-transfer callback logs a per-file start message
\* every time it is invoked, whatever the size of the batch; it is the start
\* banner of the batch that is logged only for more than one file.
C12_BeforeLogsAlways ==
    (Transferring /\ pullPc = "plugin") =>
        /\ StartMessages(log) =
              SubSeq(ctxFiles, 1, IF beforeCalled THEN dpos ELSE dpos - 1)
        /\ HasStartBanner(log) <=> Len(files.v) > 1

\* C12's case: a single-file transfer whose before-transfer callback was
\* invoked: the start message is in the log, the banner is not.
C12_Witness ==
    /\ pullPc = "plugin"
    /\ files.v = <<"a">>
    /\ beforeCalled
    /\ StartMessages(log) = <<"a">>
    /\ ~HasStartBanner(log)

-----------------------------------------------------------------------------
(* Further claims about executeTargetOperations. *)

\* An entry the loop passes over: an empty string, an operation whose
\* condition evaluates to false, an operation of a type without an executor.
Skipped(val) ==
    \/ val = Str(sEmpty)
    \/ val.k = "object" /\ ~val.cond
    \/ val.k = "object" /\ val.type = Str(sSql)

\* C18: an entry that is an empty string, an operation whose condition
\* evaluates to false or an operation of an unknown type is passed over: no
\* executor is invoked for it, the call does not settle at it (no rejection,
\* no false), and the loop goes on with the next entry; a chain of such
\* entries only, none of whose iterations found the finalize flag set,
\* returns true.
C18_SkippedEntries ==
    /\ \A j \in 1..Len(begun) :
          LET e == begun[j].idx
          IN  (Skipped(OPS[e]) /\ ~begun[j].fin) =>
                  /\ ~Runnable(e)
                  /\ \/ j < Len(begun) /\ begun[j + 1].idx = e + 1
                     \/ j = Len(begun) /\ opsPc = "loop" /\ idx = e + 1
                                       /\ opsRet = Pending
                     \/ j = Len(begun) /\ opsPc = "done" /\ e = Len(OPS)
                                       /\ opsRet = Bool(TRUE)
    /\ (opsPc = "done" /\ target.k = "object"
            /\ (\A i \in 1..Len(OPS) : Skipped(OPS[i]))
            /\ ~SomeFinalizedIteration) =>
          /\ invoked = <<>>
          /\ opsRet = Bool(TRUE)

\* C18's case: an empty string, an excluded operation and an operation of an
\* unknown type; the call returned true without invoking anything.
C18_Witness ==
    /\ opsPc = "done"
    /\ OPS = <<Str(sEmpty), Operation(Str(sOpen), Str(sFile), FALSE),
               Operation(Str(sSql), Str(sFile), TRUE)>>
    /\ Len(begun) = 3
    /\ invoked = <<>>
    /\ opsRet = Bool(TRUE)

RECURSIVE History(_)
\* The contexts reached from ctx by following previousOperation, nearest
\* first.
History(ctx) ==
    IF ctx.previousOperation.k = "context"
    THEN <<ctx.previousOperation>> \o History(ctx.previousOperation)
    ELSE <<>>

\* C19: the context of the k-th invoked executor of a call is linked to the
\* context of the (k-1)-th, the first to none; following the links from a
\* context yields the contexts of the executors invoked before it in this
\* call, latest first, and nothing else: no skipped entry, no context twice,
\* no context of an earlier call.
C19_PreviousOperationChain ==
    /\ \A v \in 1..Len(invoked) :
          LET ctx == invoked[v].ctx
              history == History(ctx)
          IN  /\ ctx.previousOperation = PrevOf(v)
              /\ history = [n \in 1..(v - 1) |-> invoked[v - n].ctx]
              /\ \A n \in 1..Len(history) : history[n] # ctx
              /\ \A m, n \in 1..Len(history) : history[m] = history[n] => m = n
              /\ ctx.operation = conditionFilter(toOperation(OPS[invoked[v].idx]))
    /\ prevOperation = IF invoked = <<>> THEN NoContext
                       ELSE invoked[Len(invoked)].ctx
    /\ \A v \in 1..Len(invoked) - 1 : invoked[v].idx < invoked[v + 1].idx

\* C19's case: in a call that follows a call with invocations, the 1st and
\* the 3rd entry were invoked and the 2nd passed over.
C19_Witness ==
    /\ earlierInvoked
    /\ Len(OPS) = 3
    /\ Skipped(OPS[2])
    /\ [v \in 1..Len(invoked) |-> invoked[v].idx] = <<1, 3>>
    /\ History(invoked[2].ctx) = <<invoked[1].ctx>>
    /\ invoked[1].ctx.previousOperation = NoContext

-----------------------------------------------------------------------------
(* Claims about both calls, checked under SpecEither. *)

\* C20: at no moment are two batch calls of one pullFilesFrom call in
\* flight: a plugin's turn begins only after every earlier turn has settled;
\* and at no moment are two executors of one executeTargetOperations call
\* unsettled: an executor is invoked only after every earlier one settled.
C20_OneAtATime ==
    /\ inFlight <= 1
    /\ inFlight = 1 <=> (PI # 0)
    /\ \A n \in 1..Len(turns) :
          turns[n].outcome = "pending" => (n = Len(turns) /\ pullPc = "plugin")
    /\ Len(results) <= Len(invoked)
    /\ Len(invoked) <= Len(results) + 1
    /\ Len(invoked) = Len(results) + 1 <=> opsPc = "await"

\* C20's case for pullFilesFrom: the second plugin's call is in flight, the
\* first has settled.
C20_Witness ==
    /\ pullPc = "plugin"
    /\ Len(calls) = 2
    /\ turns[1].outcome # "pending"
    /\ inFlight = 1

-----------------------------------------------------------------------------
(* Claims about getTargetsByName, checked under SpecNames. *)

\* A string trimmed and then case-folded.
Fold(s) == toLowerCase(trim(s))

\* The resolved name of a target: its configured name without the blanks
\* around it, or the default name of its position (index + 1) if nothing is
\* left.
ResolvedName(t) ==
    LET configured == IF t.name.k = "string" THEN t.name.v ELSE <<>>
    IN  IF \A i \in 1..Len(configured) : configured[i] = " "
        THEN defaultName(t.__index + 1)
        ELSE trim(configured)

\* The requested names and the targets, as lists.
Asked ==
    CASE targetNames.k = "array" -> targetNames.v
      [] targetNames.k = "string" -> <<targetNames>>
      [] OTHER -> <<>>

Given == IF targets.k = "array" THEN targets.v ELSE <<targets>>

\* The requested name n names the target t.
Names(n, t) == Fold(n.v) = Fold(ResolvedName(t))

\* Some requested name names no target.
SomeNameUnknown ==
    \E i \in 1..Len(Asked) : \A j \in 1..Len(Given) : ~Names(Asked[i], Given[j])

\* The first requested name that names t.
FirstAsked(t) ==
    CHOOSE i \in 1..Len(Asked) :
        /\ Names(Asked[i], t)
        /\ \A h \in 1..(i - 1) : ~Names(Asked[h], t)

\* C17: a requested name names a target when both are equal after trimming
\* and case folding, the target's name being its configured name or, when
\* that is empty or blank, the default name of position index + 1. The call
\* returns false if and only if some requested name names no target;
\* otherwise it returns every named target exactly once, however often and
\* in whatever formatting its name was asked for, the targets grouped in the
\* order in which their names were first asked for and in their own order
\* within a group.
C17_TargetsByName ==
    namesRet # Pending =>
        /\ namesRet = Bool(FALSE) <=> SomeNameUnknown
        /\ ~SomeNameUnknown =>
              /\ namesRet.k = "array"
              /\ LET found == namesRet.v
                 IN  /\ \A j \in 1..Len(Given) :
                           (\E i \in 1..Len(Asked) : Names(Asked[i], Given[j]))
                               <=> (\E a \in 1..Len(found) : found[a] = Given[j])
                     /\ \A a \in 1..Len(found) :
                           \E j \in 1..Len(Given) : found[a] = Given[j]
                     /\ \A a, b \in 1..Len(found) : found[a] = found[b] => a = b
                     /\ \A a, b \in 1..Len(found) :
                           a < b =>
                              \/ FirstAsked(found[a]) < FirstAsked(found[b])
                              \/ /\ FirstAsked(found[a]) = FirstAsked(found[b])
                                 /\ found[a].__index < found[b].__index

\* C17's case: "Prod " and "prod" are asked for; the one target named
\* "Prod " is returned once.
C17_Witness ==
    /\ targetNames = Arr(<<Str(sProdRaw), Str(sProd)>>)
    /\ targets = Arr(<<[k |-> "object", name |-> Str(sBlank), __index |-> 0],
                       [k |-> "object", name |-> Str(sProdRaw), __index |-> 1]>>)
    /\ namesRet = Arr(<<targets.v[2]>>)

-----------------------------------------------------------------------------
(* Claims about pullFileFrom, pullPackage and showTargetQuickPick, checked  *)
(* under SpecFlow.                                                          *)

\* The call reached its selection of a target: showTargetQuickPick was
\* called, or pullPackage found files.
Selecting ==
    \/ flow = "showTargetQuickPick"
    \/ flow = "pullPackage" /\ FILES_TO_PULL.k = "array" /\ Len(FILES_TO_PULL.v) >= 1

\* The function run for a selected target: pullFilesFrom with the files found
\* and the target (pullPackage), or the caller's action, if one was passed.
ActionRunFor(i) ==
    /\ Len(actions) = 1
    /\ actions[1].item = i
    /\ actions[1].target = QUICK_PICK_ITEMS[i]
    /\ IF flow = "pullPackage"
       THEN /\ pullPc # "idle"
            /\ files = FILES_TO_PULL
            /\ pullTarget = QUICK_PICK_ITEMS[i]
       ELSE actions[1].called = action

\* Nothing was run for any target.
NoActionRun == actions = <<>> /\ pullPc = "idle" /\ calls = <<>>

\* C13: with one qualifying target its action is run and the chooser is not
\* shown; with two or more the chooser is shown once, nothing is run before
\* it settles, and then the action of the chosen target only is run, or of
\* none, without an error, if nothing was chosen; with no qualifying target
\* one warning is shown and neither the chooser nor an action is run.
C13_TargetSelection ==
    Selecting =>
        LET n == Len(QUICK_PICK_ITEMS)
        IN  /\ n = 1 =>
                  /\ choosers = 0
                  /\ selectedItem = 1
                  /\ ActionRunFor(1)
            /\ n >= 2 =>
                  /\ choosers = 1
                  /\ flowPc = "choose" => NoActionRun
                  /\ (flowPc # "choose" /\ selectedItem = 0) =>
                        /\ NoActionRun
                        /\ flowPc = "done"
                        /\ flowRet = Undef
                  /\ (flowPc # "choose" /\ selectedItem # 0) =>
                        ActionRunFor(selectedItem)
            /\ n = 0 =>
                  /\ warnings = 1
                  /\ choosers = 0
                  /\ NoActionRun
                  /\ flowPc = "done"
                  /\ flowRet = Undef

\* C13's case: pullPackage with two different targets; the second was
\* chosen and the files were pulled from it.
C13_Witness ==
    /\ flow = "pullPackage"
    /\ Len(QUICK_PICK_ITEMS) = 2
    /\ QUICK_PICK_ITEMS[1] # QUICK_PICK_ITEMS[2]
    /\ choosers = 1
    /\ selectedItem = 2
    /\ pullTarget = QUICK_PICK_ITEMS[2]
    /\ calls # <<>>
    /\ flowPc = "done"

\* C14 as stated: showTargetQuickPick resolves to what the action run for the
\* selected target resolved to, and to ifNoTargets when there is no target
\* at all.
C14_Original ==
    (flow = "showTargetQuickPick" /\ flowPc = "done") =>
        /\ (selectedItem # 0 /\ action /\ actionResult # Thrown) =>
              flowRet = actionResult
        /\ QUICK_PICK_ITEMS = <<>> => flowRet = ifNoTargets

\* C15: when the workspace cannot handle the target of pullFileFrom or the
\* package of pullPackage, the call rejects with the ownership error and that
\* is all it does: no plugin is selected or called, no file is searched for,
\* no warning and no chooser is shown, nothing is written. A null target or
\* package makes the call resolve at once, and the workspace is not asked.
C15_OwnershipError ==
    flow \in {"pullFileFrom", "pullPackage"} =>
        LET nothingDone ==
                /\ flowPc = "done"
                /\ pullPc = "idle"
                /\ PLUGINS = <<>>
                /\ turns = <<>>
                /\ calls = <<>>
                /\ written = {}
                /\ warnings = 0
                /\ searches = 0
                /\ choosers = 0
                /\ actions = <<>>
        IN  /\ (item.k = "object" /\ ~canBeHandledByMe) =>
                  /\ nothingDone
                  /\ checks = 1
                  /\ flowRet = ConfigurationError
            /\ item.k = "null" =>
                  /\ nothingDone
                  /\ checks = 0
                  /\ flowRet = Undef
            /\ flowRet.k = "rejected" =>
                  (item.k = "object" /\ ~canBeHandledByMe)

\* C15's case: a package the workspace cannot handle, on a workspace with
\* plugins.
C15_Witness ==
    /\ flow = "pullPackage"
    /\ item.k = "object"
    /\ ~canBeHandledByMe
    /\ Len(plugins) >= 1
    /\ flowRet = ConfigurationError

\* C16 as stated: a call rejects with the ownership error only; an executor
\* that throws, a plugin call that throws, a write that throws and a selected
\* target's action that throws do not reject the call.
C16_Original ==
    /\ opsRet.k # "rejected"
    /\ pullRet.k # "rejected"
    /\ flowRet.k = "rejected" => flowRet = ConfigurationError

-----------------------------------------------------------------------------
(* The finalize flag and a transfer, checked under SpecFinalize. *)

\* What a pullFilesFrom call did and may do next, told from its arguments
\* and the registry alone: the plugins that had and will have their turn,
\* the descriptors each was handed, and the steps open to the loop and to
\* the plugin in flight.
TransferAsUsual ==
    Transferring =>
        /\ TurnPlugins \o PLUGINS = MatchingPositions
        /\ pullPc = "done" => TurnPlugins = MatchingPositions
        /\ CallPlugins = SelectSeq(TurnPlugins, LAMBDA i : plugins[i].downloadFiles)
        /\ \A c \in 1..Len(calls) : calls[c].files = ResolvedFiles
        /\ (pullPc = "loop" /\ PLUGINS # <<>>) => ENABLED PluginTurn
        /\ (pullPc = "loop" /\ PLUGINS = <<>>) => ENABLED PullReturn
        /\ (pullPc = "plugin" /\ dpos <= Len(ctxFiles)) =>
              /\ ~beforeCalled => ENABLED onBeforeDownload
              /\ (beforeCalled /\ ~persisting) => ENABLED onDownloadCompleted
              /\ persisting => ENABLED writeFileSettles
        /\ (pullPc = "plugin" /\ ~persisting) => ENABLED downloadFilesSettles

\* The step in which the workspace enters its finalize state changes
\* nothing of a pullFilesFrom call.
FinalizeLeavesTransfer ==
    isInFinalizeState' # isInFinalizeState => UNCHANGED pullVars

\* executeTargetOperations ends on the flag only in the step that begins an
\* iteration; an executor that settles while the flag is set is handled by
\* what it settled with.
FinalizeSeenAtIterationTop ==
    /\ (opsRet = Pending /\ opsRet' = Bool(FALSE) /\ results' = results) <=>
          (opsPc = "loop" /\ idx <= Len(OPS) /\ isInFinalizeState)
    /\ (isInFinalizeState /\ results' # results
          /\ results'[Len(results')] \in Continuing) =>
          (opsPc' = "loop" /\ opsRet' = Pending)

\* C21: the finalize flag does not affect a file transfer. Whether and
\* whenever the flag is set, before or during a pullFilesFrom call, the
\* plugins invoked and their order, the descriptors dispatched and the
\* per-file callbacks open to the plugin are those of the call's arguments
\* and the registry, so a started transfer goes on to its own end; the flag
\* is read only where an iteration of the operation chain begins.
C21_FinalizeIgnoredByTransfer ==
    /\ []TransferAsUsual
    /\ [][FinalizeLeavesTransfer]_vars
    /\ [][FinalizeSeenAtIterationTop]_vars

\* C21's case: the flag is set, and of two matching plugins the first
\* resolved and the second is in flight and had a file written.
C21_Witness ==
    /\ isInFinalizeState
    /\ Transferring
    /\ pullPc = "plugin"
    /\ MatchingPositions = <<1, 2>>
    /\ Len(turns) = 2
    /\ turns[1].outcome = "resolved"
    /\ lastCompletion # Null
    /\ lastCompletion.result = "ok"
    /\ written # {}

====
